---- MODULE Spec2Model ----
(***************************************************************************)
(* The transactional stock ledger of VSOL-MiNi: the inventory, purchase    *)
(* and sales API routes running against one MySQL (InnoDB) database.       *)
(*                                                                         *)
(* Numbers.  Every JavaScript number and every DECIMAL value is an integer *)
(* counting 1/Unit, Unit = Scale * Scale = 10000, so that the product of   *)
(* two values with two fractional digits (the step of the forms and the    *)
(* scale of the DECIMAL(12,2) columns) is exact.  1.00 is 10000, 0.01 is   *)
(* 100.  Floating-point error of the JavaScript arithmetic is not          *)
(* modelled.                                                               *)
(*                                                                         *)
(* Database.  The committed tables are the variables inventory, purchases  *)
(* and sales; they are what any other connection reads (InnoDB never shows *)
(* uncommitted rows).  A transaction keeps its inserted rows and its row   *)
(* updates in its request record until COMMIT installs them at once or     *)
(* ROLLBACK drops them.  UPDATE takes the exclusive lock of the row it     *)
(* matches and holds it to the end of the transaction; the foreign key of  *)
(* purchases takes a shared lock on the parent inventory row.  The         *)
(* isolation level is InnoDB's default, REPEATABLE READ: a plain SELECT    *)
(* reads the committed rows without a lock, and a statement that looks for *)
(* an inventory id without a row locks the gap the id lies in, which makes *)
(* an INSERT of a new inventory row wait for the end of the transaction.   *)
(***************************************************************************)
EXTENDS Integers, Sequences, FiniteSets, TLC

VARIABLES
  inventory,    \* committed rows of table inventory, index = id
  opening,      \* history: quantity each item was created with
  purchases,    \* committed rows of table purchases, in commit order
  sales,        \* committed rows of table sales, in commit order
  autoInc,      \* AUTO_INCREMENT counters of purchases and sales
  priorSales,   \* rows the sales table already held when the run begins
  year,         \* the latest reading of new Date().getFullYear()
  lastYear,     \* the calendar year in which the run ends
  sequential,   \* clients issue sale requests one at a time
  req,          \* per request: position in the handler, locals, transaction
  checkedOut,   \* requests holding a pool connection
  expenses,     \* committed rows of table expenses, in commit order
  today,        \* the day the clock shows, as a day number of the month
  rep,          \* per read request (report or list): position, locals, answer
  post          \* the last POST to the inventory or expenses route, answered

vars == <<inventory, opening, purchases, sales, autoInc, priorSales, year,
          lastYear, sequential, req, checkedOut, expenses, today, rep,
          post>>

----------------------------------------------------------------------------
(* Bounds *)

MaxReq == 2
MaxItems == 2
MaxReads == 2
MaxExpenses == 2
MaxDay == 3

Reqs == 1..MaxReq
ItemIds == 1..MaxItems
Reads == 1..MaxReads
Days == 1..MaxDay

(* Program constants *)

Scale == 100
Unit == Scale * Scale
connectionLimit == 10
padWidth == 3

Years == 2026..2027
PriorSalesChoices == {0, 8, 98, 998}

----------------------------------------------------------------------------
(* JavaScript values *)

None == <<>>
Some(v) == <<v>>

\* !x is false: the value is present and not 0
Truthy(o) == o # None /\ o[1] # 0

\* x || 0
OrZero(o) == IF Truthy(o) THEN o[1] ELSE 0

\* n hundredths
H(n) == n * Scale

\* a * b of two numbers
Mul(a, b) == (a * b) \div Unit

Abs(x) == IF x >= 0 THEN x ELSE -x

\* a value stored into a DECIMAL(12,2) column: rounded to two fractional
\* digits, half away from zero
Dec2(x) ==
  LET m == ((Abs(x) + Scale \div 2) \div Scale) * Scale
  IN  IF x >= 0 THEN m ELSE -m

Digit(d) == CASE d = 0 -> "0" [] d = 1 -> "1" [] d = 2 -> "2" [] d = 3 -> "3"
              [] d = 4 -> "4" [] d = 5 -> "5" [] d = 6 -> "6" [] d = 7 -> "7"
              [] d = 8 -> "8" [] d = 9 -> "9"

\* String(n) for a natural number n
RECURSIVE String(_)
String(n) == IF n < 10 THEN <<Digit(n)>>
             ELSE Append(String(n \div 10), Digit(n % 10))

\* s.padStart(w, c)
RECURSIVE padStart(_, _, _)
padStart(s, w, c) == IF Len(s) >= w THEN s ELSE padStart(<<c>> \o s, w, c)

\* the number without its padding
InvoiceNumberNoPad(y, nextNumber) ==
  <<"I", "N", "V", "-">> \o String(y) \o <<"-">> \o String(nextNumber)

\* `INV-${year}-${String(nextNumber).padStart(3, '0')}`
InvoiceNumber(y, nextNumber) ==
  <<"I", "N", "V", "-">> \o String(y) \o <<"-">>
    \o padStart(String(nextNumber), padWidth, "0")

----------------------------------------------------------------------------
(* Request bodies *)

Line(id, q, rate) == [item_id |-> id, quantity |-> q, rate |-> rate]

Array(lines) == [kind |-> "array", lines |-> lines]
NoItems == [kind |-> "absent", lines |-> <<>>]
ScalarItems == [kind |-> "scalar", lines |-> <<>>]

NoTaxes == [present |-> FALSE, cgst |-> None, sgst |-> None, igst |-> None]
Taxes(c, s, i) == [present |-> TRUE, cgst |-> c, sgst |-> s, igst |-> i]

PurchaseBody(id, q, rate) ==
  [item_id |-> id, quantity |-> q, rate |-> rate,
   items |-> NoItems, taxes |-> NoTaxes]

SaleBody(items, taxes) ==
  [item_id |-> None, quantity |-> None, rate |-> None,
   items |-> items, taxes |-> taxes]

NoBody == PurchaseBody(None, None, None)

PurchaseBodies ==
  { PurchaseBody(Some(1), Some(H(50)), Some(H(900))),
    PurchaseBody(Some(2), Some(H(200)), Some(H(300))),
    PurchaseBody(Some(1), Some(-H(100)), Some(-H(300))),
    PurchaseBody(None, Some(H(200)), Some(H(300))),
    PurchaseBody(Some(1), Some(0), Some(H(300))),
    PurchaseBody(Some(1), Some(H(200)), None) }

SaleBodies ==
  { SaleBody(NoItems, NoTaxes),
    SaleBody(ScalarItems, NoTaxes),
    SaleBody(Array(<<>>), NoTaxes),
    SaleBody(Array(<<Line(Some(1), Some(H(100)), Some(H(1000)))>>),
             Taxes(Some(H(500)), Some(H(500)), Some(0))),
    SaleBody(Array(<<Line(Some(1), Some(H(200)), Some(H(300))),
                     Line(Some(2), Some(H(100)), Some(H(300)))>>), NoTaxes),
    SaleBody(Array(<<Line(Some(2), Some(H(100)), Some(H(300))),
                     Line(Some(1), Some(H(200)), Some(H(300)))>>), NoTaxes),
    SaleBody(Array(<<Line(Some(1), Some(H(50)), Some(H(1))),
                     Line(Some(1), Some(-H(100)), None),
                     Line(None, None, Some(H(300))),
                     Line(Some(1), Some(H(25)), Some(H(1)))>>),
             Taxes(Some(H(1)), None, Some(H(2)))) }

ItemBody(name, category, q, rate) ==
  [item_name |-> name, category |-> category, quantity |-> q, rate |-> rate]

ItemBodies ==
  { ItemBody(TRUE, TRUE, Some(H(300)), Some(H(1000))),
    ItemBody(TRUE, TRUE, None, Some(H(1000))),
    ItemBody(FALSE, TRUE, Some(H(300)), Some(H(1000))),
    ItemBody(TRUE, TRUE, Some(0), Some(H(1000))) }

----------------------------------------------------------------------------
(* State of one request *)

ZeroDelta == [i \in ItemIds |-> 0]
NoWrites == [i \in ItemIds |-> None]
NoResp == [id |-> 0, invoice_number |-> <<>>, grand_total |-> 0]

IdleReq ==
  [kind |-> "none", pc |-> "idle", body |-> NoBody, i |-> 0,
   taxableTotal |-> 0, cgst |-> 0, sgst |-> 0, igst |-> 0, grandTotal |-> 0,
   invoiceNumber |-> <<>>, insertId |-> 0,
   newRows |-> <<>>, writes |-> NoWrites, slocks |-> {},
   stmtDelta |-> ZeroDelta, applied |-> ZeroDelta,
   abandoned |-> "no", acquired |-> 0, released |-> 0,
   status |-> 0, resp |-> NoResp]

\* GET /api/reports?from=..&to=..&detail=..; a date is a day of the month
\* of the run, written YYYY-MM-DD
ReportQuery(from, to, detail) == [from |-> from, to |-> to, detail |-> detail]

ReportQueries ==
  { ReportQuery(Some(1), Some(MaxDay), d) : d \in BOOLEAN }
  \cup { ReportQuery(Some(2), Some(2), TRUE),
         ReportQuery(Some(1), Some(1), FALSE),
         ReportQuery(Some(MaxDay), Some(1), FALSE),
         ReportQuery(Some(2), None, FALSE) }

ListTables == {"inventory", "purchases", "sales", "expenses"}

\* POST /api/expenses
ExpenseBody(description, amount, date) ==
  [description |-> description, amount |-> amount, date |-> date]

ExpenseBodies ==
  { ExpenseBody(TRUE, Some(H(50)), None),
    ExpenseBody(TRUE, Some(H(125)), Some(1)),
    ExpenseBody(TRUE, None, Some(1)),
    ExpenseBody(FALSE, Some(H(50)), None),
    ExpenseBody(TRUE, Some(0), Some(1)) }

\* a POST to the inventory or expenses route with its answer
Posted(route, body, status, id) ==
  [route |-> route, body |-> body, status |-> status, id |-> id]

NoPost == Posted("none", NoBody, 0, 0)

NoSummary == [sales |-> 0, purchases |-> 0, expenses |-> 0, netProfit |-> 0]
NoLists == [sales |-> <<>>, purchases |-> <<>>, expenses |-> <<>>]

IdleRead ==
  [kind |-> "none", pc |-> "idle", table |-> "", query |-> <<>>,
   fromStr |-> 0, toStr |-> 0,
   salesAgg |-> 0, purchaseAgg |-> 0, expenseAgg |-> 0,
   summary |-> NoSummary, lists |-> NoLists, rows |-> {},
   first |-> 0, last |-> 0, status |-> 0]

Init ==
  /\ expenses = <<>>
  /\ today = 2
  /\ rep = [k \in Reads |-> IdleRead]
  /\ post = NoPost
  /\ inventory = <<>>
  /\ opening = <<>>
  /\ purchases = <<>>
  /\ sales = <<>>
  /\ autoInc = [purchases |-> 1, sales |-> 1]
  /\ priorSales = 0
  /\ year = 2026
  /\ lastYear = 2026
  /\ sequential = FALSE
  /\ req = [r \in Reqs |-> IdleReq]
  /\ checkedOut = {}

----------------------------------------------------------------------------
(* InnoDB row locks and the view of a transaction *)

\* the locks of an UPDATE whose WHERE clause cannot use the primary key:
\* every row of the table it scans
XLocksAllRows(r) ==
  IF \E i \in ItemIds : req[r].writes[i] # None THEN ItemIds ELSE {}

\* rows of inventory the transaction of r has updated and holds locked
XLocks(r) == {i \in ItemIds : req[r].writes[i] # None}

\* an UPDATE that waits for no lock: a quantity read and written back
NoRowLock(r, i) == TRUE

\* UPDATE waits while another transaction holds any lock on the row
CanLockX(r, i) ==
  \A o \in Reqs \ {r} : i \notin (XLocks(o) \cup req[o].slocks)

\* the foreign-key check waits while another transaction has updated the row
CanLockS(r, i) == \A o \in Reqs \ {r} : i \notin XLocks(o)

\* quantity the UPDATE of r reads: its own update, else the committed row
CurrentQuantity(r, i) ==
  IF req[r].writes[i] # None THEN req[r].writes[i][1]
  ELSE inventory[i].quantity

\* SET quantity = GREATEST(quantity + d, 0) on row i: stock with a floor
UpdateQuantityFloored(r, i, d) ==
  [req[r].writes EXCEPT ![i] =
     Some(IF CurrentQuantity(r, i) + d < 0 THEN 0
          ELSE Dec2(CurrentQuantity(r, i) + d))]

\* SET quantity = quantity + d on row i
UpdateQuantity(r, i, d) ==
  [req[r].writes EXCEPT ![i] = Some(Dec2(CurrentQuantity(r, i) + d))]

\* the transaction of r has looked for an inventory id without a row, in
\* the UPDATE of a sale line before line i or in the foreign-key check of a
\* purchase, and holds the lock on the gap above the last row
HoldsGap(r) ==
  \/ \E i \in req[r].slocks : i \notin DOMAIN inventory
  \/ /\ req[r].kind = "sale"
     /\ req[r].pc \in {"update", "commit", "rollback"}
     /\ \E n \in 1..(req[r].i - 1) :
          /\ n <= Len(req[r].body.items.lines)
          /\ Truthy(req[r].body.items.lines[n].item_id)
          /\ OrZero(req[r].body.items.lines[n].quantity) > 0
          /\ req[r].body.items.lines[n].item_id[1] \notin DOMAIN inventory

\* the row whose lock the statement request r stands at asks for, if any
Wanted(r) ==
  IF req[r].kind = "purchase" /\ req[r].pc \in {"insert", "update"}
    THEN {req[r].body.item_id[1]} \cap DOMAIN inventory
  ELSE IF req[r].kind = "sale" /\ req[r].pc = "update"
    THEN {req[r].body.items.lines[req[r].i].item_id[1]} \cap DOMAIN inventory
  ELSE {}

\* the statement r stands at waits for a lock that o holds
WaitsFor(r, o) ==
  /\ r # o
  /\ \E i \in Wanted(r) :
       \/ i \in XLocks(o)
       \/ i \in req[o].slocks
          /\ ~(req[r].kind = "purchase" /\ req[r].pc = "insert")

\* the requests r waits for, and those they wait for, and so on
RECURSIVE WaitClosure(_)
WaitClosure(S) ==
  LET T == S \cup {o \in Reqs : \E q \in S : WaitsFor(q, o)}
  IN IF T = S THEN S ELSE WaitClosure(T)

\* r stands in a cycle of transactions each waiting for the next
InCycle(r) == \E o \in Reqs : WaitsFor(r, o) /\ r \in WaitClosure({o})

\* the sequence taken from the AUTO_INCREMENT counter of the table, which a
\* rolled-back INSERT does not give back
CountSalesFromCounter == priorSales + autoInc.sales - 1

\* SELECT COUNT(*) FROM sales
CountSales == priorSales + Len(sales)

----------------------------------------------------------------------------
(* Sales handler, locals *)

\* the check without items.length === 0
ItemsRejectedNoEmpty(items) == items.kind # "array"

\* !items || !Array.isArray(items) || items.length === 0
ItemsRejected(items) == items.kind # "array" \/ Len(items.lines) = 0

\* items.forEach(item => taxableTotal += (item.rate||0) * (item.quantity||0))
RECURSIVE TaxableTotal(_)
TaxableTotal(lines) ==
  IF lines = <<>> THEN 0
  ELSE TaxableTotal(SubSeq(lines, 1, Len(lines) - 1))
       + Mul(OrZero(lines[Len(lines)].rate), OrZero(lines[Len(lines)].quantity))

\* taxes?.cgst || 0
TaxOf(taxes, f) == IF taxes.present THEN OrZero(taxes[f]) ELSE 0

\* the sum without igst
GrandTotalNoIgst(taxableTotal, cgst, sgst, igst) == taxableTotal + cgst + sgst

GrandTotal(taxableTotal, cgst, sgst, igst) == taxableTotal + cgst + sgst + igst

\* q && item.item_id: the sign of the quantity not looked at
IssuesUpdateAnySign(line) == Truthy(line.quantity) /\ Truthy(line.item_id)

\* q > 0 && item.item_id
IssuesUpdate(line) == OrZero(line.quantity) > 0 /\ Truthy(line.item_id)

\* the first line at or after i for which the loop awaits an UPDATE
RECURSIVE NextLine(_, _)
NextLine(lines, i) ==
  IF i > Len(lines) THEN i
  ELSE IF IssuesUpdate(lines[i]) THEN i
  ELSE NextLine(lines, i + 1)

AfterLine(lines, i) ==
  IF NextLine(lines, i) > Len(lines) THEN "commit" ELSE "update"

SaleRow(r) ==
  [id |-> autoInc.sales,
   invoice_number |-> req[r].invoiceNumber,
   items |-> req[r].body.items.lines,
   taxable_total |-> Dec2(req[r].taxableTotal),
   cgst |-> Dec2(req[r].cgst),
   sgst |-> Dec2(req[r].sgst),
   igst |-> Dec2(req[r].igst),
   grand_total |-> Dec2(req[r].grandTotal),
   date |-> today,
   req |-> r]

PurchaseRow(r) ==
  [id |-> autoInc.purchases,
   item_id |-> req[r].body.item_id[1],
   quantity |-> Dec2(req[r].body.quantity[1]),
   rate |-> Dec2(req[r].body.rate[1]),
   date |-> today,
   req |-> r]

\* !item_id || !quantity || !rate
PurchaseRejected(b) ==
  ~Truthy(b.item_id) \/ ~Truthy(b.quantity) \/ ~Truthy(b.rate)

\* !item_name || !category || !quantity || !rate
ItemRejected(b) ==
  ~b.item_name \/ ~b.category \/ ~Truthy(b.quantity) \/ ~Truthy(b.rate)

----------------------------------------------------------------------------
Tables == <<inventory, opening, purchases, sales>>
Env == <<priorSales, year, lastYear, sequential, expenses, today, rep, post>>

(* Inventory route, POST *)

CreateItem(b) ==
  /\ Cardinality(checkedOut) < connectionLimit
  /\ IF ItemRejected(b)
       THEN /\ UNCHANGED <<inventory, opening>>
            /\ post' = Posted("inventory", b, 400, 0)
       ELSE /\ Len(inventory) < MaxItems
            /\ \A r \in Reqs : ~HoldsGap(r)
            /\ inventory' = Append(inventory,
                 [quantity |-> Dec2(b.quantity[1]), rate |-> Dec2(b.rate[1])])
            /\ opening' = Append(opening, Dec2(b.quantity[1]))
            /\ post' = Posted("inventory", b, 201, Len(inventory) + 1)
  /\ UNCHANGED <<purchases, sales, autoInc, priorSales, year, lastYear,
                 sequential, expenses, today, rep, req, checkedOut>>

\* the INSERT throws: nothing is inserted
CreateItemFails(b) ==
  /\ Cardinality(checkedOut) < connectionLimit
  /\ ~ItemRejected(b)
  /\ post' = Posted("inventory", b, 500, 0)
  /\ UNCHANGED <<Tables, autoInc, priorSales, year, lastYear, sequential,
                 expenses, today, rep, req, checkedOut>>

----------------------------------------------------------------------------
(* Purchase and sales routes, POST.  Requests are numbered in the order *)
(* they arrive.                                                          *)

Arrives(r) ==
  /\ req[r].pc = "idle"
  /\ \A o \in Reqs : o < r => req[o].pc # "idle"

InFlight(r) == req[r].pc \notin {"idle", "done"}

StartPurchase(r, b) ==
  /\ Arrives(r)
  /\ req' = [req EXCEPT ![r] =
       IF PurchaseRejected(b)
         THEN [@ EXCEPT !.kind = "purchase", !.body = b,
                        !.status = 400, !.pc = "done"]
         ELSE [@ EXCEPT !.kind = "purchase", !.body = b,
                        !.pc = "getConnection"]]
  /\ UNCHANGED <<Tables, autoInc, Env, checkedOut>>

StartSale(r, b) ==
  /\ Arrives(r)
  /\ sequential => \A o \in Reqs : req[o].kind = "sale" => ~InFlight(o)
  /\ req' = [req EXCEPT ![r] =
       IF ItemsRejected(b.items)
         THEN [@ EXCEPT !.kind = "sale", !.body = b,
                        !.status = 400, !.pc = "done"]
         ELSE LET taxableTotal == TaxableTotal(b.items.lines)
                  cgst == TaxOf(b.taxes, "cgst")
                  sgst == TaxOf(b.taxes, "sgst")
                  igst == TaxOf(b.taxes, "igst")
              IN [@ EXCEPT !.kind = "sale", !.body = b,
                           !.taxableTotal = taxableTotal,
                           !.cgst = cgst, !.sgst = sgst, !.igst = igst,
                           !.grandTotal =
                              GrandTotal(taxableTotal, cgst, sgst, igst),
                           !.pc = "getConnection"]]
  /\ UNCHANGED <<Tables, autoInc, Env, checkedOut>>

\* pool.getConnection()
GetConnection(r) ==
  /\ req[r].pc = "getConnection"
  /\ Cardinality(checkedOut) < connectionLimit
  /\ checkedOut' = checkedOut \cup {r}
  /\ req' = [req EXCEPT ![r].pc = "begin", ![r].acquired = @ + 1]
  /\ UNCHANGED <<Tables, autoInc, Env>>

\* pool.getConnection() throws: outer catch
GetConnectionFails(r) ==
  /\ req[r].pc = "getConnection"
  /\ req' = [req EXCEPT ![r].pc = "done", ![r].status = 500]
  /\ UNCHANGED <<Tables, autoInc, Env, checkedOut>>

\* conn.beginTransaction()
BeginTransaction(r) ==
  /\ req[r].pc = "begin"
  /\ req' = [req EXCEPT ![r].pc =
               IF req[r].kind = "sale" THEN "count" ELSE "insert"]
  /\ UNCHANGED <<Tables, autoInc, Env, checkedOut>>

\* SELECT COUNT(*) AS count FROM sales, then the invoice number with the
\* year the clock shows now
SaleCount(r) ==
  /\ req[r].pc = "count"
  /\ \E y \in year..lastYear :
       /\ year' = y
       /\ req' = [req EXCEPT ![r].invoiceNumber =
                                InvoiceNumber(y, CountSales + 1),
                             ![r].pc = "insert"]
  /\ UNCHANGED <<Tables, autoInc, priorSales, lastYear, sequential,
                 checkedOut, expenses, today, rep, post>>

\* INSERT INTO sales, then the loop up to its first UPDATE
SaleInsert(r) ==
  /\ req[r].kind = "sale"
  /\ req[r].pc = "insert"
  /\ autoInc' = [autoInc EXCEPT !.sales = @ + 1]
  /\ req' = [req EXCEPT ![r].newRows = <<SaleRow(r)>>,
                        ![r].i = NextLine(req[r].body.items.lines, 1),
                        ![r].pc = AfterLine(req[r].body.items.lines, 1)]
  /\ UNCHANGED <<Tables, Env, checkedOut>>

\* UPDATE inventory SET quantity = quantity - ? WHERE id = ?, then the loop
\* up to its next UPDATE; an id without a row matches nothing
SaleUpdate(r) ==
  /\ req[r].kind = "sale"
  /\ req[r].pc = "update"
  /\ LET lines == req[r].body.items.lines
         line == lines[req[r].i]
         q == OrZero(line.quantity)
         id == line.item_id[1]
     IN /\ id \in DOMAIN inventory => CanLockX(r, id)
        /\ req' = [req EXCEPT
             ![r].writes = IF id \in DOMAIN inventory
                             THEN UpdateQuantity(r, id, -q) ELSE @,
             ![r].stmtDelta = IF id \in DOMAIN inventory
                                THEN [@ EXCEPT ![id] = @ - q] ELSE @,
             ![r].i = NextLine(lines, req[r].i + 1),
             ![r].pc = AfterLine(lines, req[r].i + 1)]
  /\ UNCHANGED <<Tables, autoInc, Env, checkedOut>>

\* the INSERT sent through the pool instead of the connection of the
\* transaction: it commits on its own
PurchaseInsertViaPool(r) ==
  /\ req[r].kind = "purchase"
  /\ req[r].pc = "insert"
  /\ autoInc' = [autoInc EXCEPT !.purchases = @ + 1]
  /\ LET id == req[r].body.item_id[1]
     IN IF id \in DOMAIN inventory
          THEN /\ CanLockS(r, id)
               /\ purchases' = Append(purchases, PurchaseRow(r))
               /\ req' = [req EXCEPT ![r].insertId = autoInc.purchases,
                                     ![r].pc = "update"]
          ELSE /\ UNCHANGED purchases
               /\ req' = [req EXCEPT ![r].pc = "rollback"]
  /\ UNCHANGED <<inventory, opening, sales, Env, checkedOut>>

\* the INSERT with its error swallowed: after the foreign key rejects the
\* row the handler goes on to commit
PurchaseInsertSwallowsError(r) ==
  /\ req[r].kind = "purchase"
  /\ req[r].pc = "insert"
  /\ autoInc' = [autoInc EXCEPT !.purchases = @ + 1]
  /\ LET id == req[r].body.item_id[1]
     IN IF id \in DOMAIN inventory
          THEN /\ CanLockS(r, id)
               /\ req' = [req EXCEPT ![r].newRows = <<PurchaseRow(r)>>,
                                     ![r].insertId = autoInc.purchases,
                                     ![r].slocks = @ \cup {id},
                                     ![r].pc = "update"]
          ELSE req' = [req EXCEPT ![r].pc = "commit"]
  /\ UNCHANGED <<Tables, Env, checkedOut>>

\* INSERT INTO purchases; the foreign key rejects an id without a row
PurchaseInsert(r) ==
  /\ req[r].kind = "purchase"
  /\ req[r].pc = "insert"
  /\ autoInc' = [autoInc EXCEPT !.purchases = @ + 1]
  /\ LET id == req[r].body.item_id[1]
     IN IF id \in DOMAIN inventory
          THEN /\ CanLockS(r, id)
               /\ req' = [req EXCEPT ![r].newRows = <<PurchaseRow(r)>>,
                                     ![r].insertId = autoInc.purchases,
                                     ![r].slocks = @ \cup {id},
                                     ![r].pc = "update"]
          ELSE req' = [req EXCEPT ![r].slocks = @ \cup {id},
                                  ![r].pc = "rollback"]
  /\ UNCHANGED <<Tables, Env, checkedOut>>

\* UPDATE inventory SET quantity = ? WHERE id = ?: the purchased quantity
\* written over the stock instead of added to it
PurchaseUpdateSets(r) ==
  /\ req[r].kind = "purchase"
  /\ req[r].pc = "update"
  /\ LET id == req[r].body.item_id[1]
         q == req[r].body.quantity[1]
     IN /\ CanLockX(r, id)
        /\ req' = [req EXCEPT ![r].writes = [@ EXCEPT ![id] = Some(Dec2(q))],
                              ![r].stmtDelta = [@ EXCEPT ![id] = @ + q],
                              ![r].pc = "commit"]
  /\ UNCHANGED <<Tables, autoInc, Env, checkedOut>>

\* UPDATE inventory SET quantity = quantity + ? WHERE id = ?
PurchaseUpdate(r) ==
  /\ req[r].kind = "purchase"
  /\ req[r].pc = "update"
  /\ LET id == req[r].body.item_id[1]
         q == req[r].body.quantity[1]
     IN /\ CanLockX(r, id)
        /\ req' = [req EXCEPT ![r].writes = UpdateQuantity(r, id, q),
                              ![r].stmtDelta = [@ EXCEPT ![id] = @ + q],
                              ![r].pc = "commit"]
  /\ UNCHANGED <<Tables, autoInc, Env, checkedOut>>


\* inventory after the row updates of r are installed
Installed(r) ==
  [i \in DOMAIN inventory |->
     IF req[r].writes[i] # None
       THEN [inventory[i] EXCEPT !.quantity = req[r].writes[i][1]]
       ELSE inventory[i]]

\* a response whose invoice number is built again from the count of sales
\* at the time of the answer
CreatedRecounts(r) ==
  IF req[r].kind = "sale"
    THEN [id |-> 0, invoice_number |-> InvoiceNumber(year, CountSales + 1),
          grand_total |-> req[r].grandTotal]
    ELSE [id |-> req[r].insertId, invoice_number |-> <<>>, grand_total |-> 0]

\* what the response of a committed request carries
Created(r) ==
  IF req[r].kind = "sale"
    THEN [id |-> 0, invoice_number |-> req[r].invoiceNumber,
          grand_total |-> req[r].grandTotal]
    ELSE [id |-> req[r].insertId, invoice_number |-> <<>>, grand_total |-> 0]

\* history: by how much this step changes each committed quantity
Change ==
  [i \in ItemIds |->
     IF i \in DOMAIN inventory
       THEN inventory'[i].quantity - inventory[i].quantity ELSE 0]

\* the handler of r has returned through finally conn.release(): its
\* transaction is over and its locals are gone; kept are its answer, the line
\* its loop stood at, the deltas its UPDATE statements carried, the change
\* its last step made and the calls it made to the pool
Ended(r, status, resp) ==
  [IdleReq EXCEPT !.kind = req[r].kind, !.body = req[r].body,
                  !.i = req[r].i, !.stmtDelta = req[r].stmtDelta,
                  !.applied = Change, !.abandoned = req[r].abandoned,
                  !.acquired = req[r].acquired,
                  !.released = req[r].released + 1,
                  !.status = status, !.resp = resp, !.pc = "done"]

\* a commit whose INSERT was a REPLACE on the newest row: the new ledger row
\* takes the place of the last committed one
CommitReplaces(r) ==
  /\ req[r].pc = "commit"
  /\ inventory' = Installed(r)
  /\ purchases' = IF req[r].kind = "purchase" /\ purchases # <<>>
                    THEN SubSeq(purchases, 1, Len(purchases) - 1)
                         \o req[r].newRows
                    ELSE IF req[r].kind = "purchase"
                      THEN purchases \o req[r].newRows ELSE purchases
  /\ sales' = IF req[r].kind = "sale" /\ sales # <<>>
                THEN SubSeq(sales, 1, Len(sales) - 1) \o req[r].newRows
                ELSE IF req[r].kind = "sale"
                  THEN sales \o req[r].newRows ELSE sales
  /\ req' = [req EXCEPT ![r] = Ended(r, 201, Created(r))]
  /\ checkedOut' = checkedOut \ {r}
  /\ UNCHANGED <<opening, autoInc, Env>>

\* conn.commit(), res.status(201), finally conn.release()
Commit(r) ==
  /\ req[r].pc = "commit"
  /\ inventory' = Installed(r)
  /\ purchases' = IF req[r].kind = "purchase"
                    THEN purchases \o req[r].newRows ELSE purchases
  /\ sales' = IF req[r].kind = "sale" THEN sales \o req[r].newRows ELSE sales
  /\ req' = [req EXCEPT ![r] = Ended(r, 201, Created(r))]
  /\ checkedOut' = checkedOut \ {r}
  /\ UNCHANGED <<opening, autoInc, Env>>

\* an awaited call on the connection throws (connection error, lock wait
\* timeout, deadlock victim): control goes to the inner catch
QueryFails(r) ==
  /\ req[r].pc \in {"begin", "count", "insert", "update", "commit"}
  /\ req' = [req EXCEPT ![r].pc = "rollback"]
  /\ UNCHANGED <<Tables, autoInc, Env, checkedOut>>

\* a server that does not look for deadlocks: the statement goes on waiting
DeadlockUndetected(r) ==
  /\ FALSE
  /\ UNCHANGED vars

\* the statement r waits in closes a cycle of waits: InnoDB finds the
\* deadlock, the statement throws and control goes to the inner catch
Deadlock(r) ==
  /\ InCycle(r)
  /\ req' = [req EXCEPT ![r].pc = "rollback"]
  /\ UNCHANGED <<Tables, autoInc, Env, checkedOut>>

\* a catch block that answers 500 and releases the connection without
\* conn.rollback(): the work of the transaction stays and is committed with
\* the next use of the connection
RollbackInstalls(r) ==
  /\ req[r].pc = "rollback"
  /\ inventory' = Installed(r)
  /\ purchases' = IF req[r].kind = "purchase"
                    THEN purchases \o req[r].newRows ELSE purchases
  /\ sales' = IF req[r].kind = "sale" THEN sales \o req[r].newRows ELSE sales
  /\ req' = [req EXCEPT ![r] = Ended(r, 500, NoResp)]
  /\ checkedOut' = checkedOut \ {r}
  /\ UNCHANGED <<opening, autoInc, Env>>

\* conn.rollback(), res.status(500), finally conn.release()
Rollback(r) ==
  /\ req[r].pc = "rollback"
  /\ UNCHANGED <<Tables, autoInc, Env>>
  /\ req' = [req EXCEPT ![r] = Ended(r, 500, NoResp)]
  /\ checkedOut' = checkedOut \ {r}

\* conn.release() as the last statement of the catch block instead of in
\* finally: when conn.rollback() throws, the connection is never released
RollbackFailsLeaks(r) ==
  /\ req[r].pc = "rollback"
  /\ UNCHANGED <<Tables, autoInc, Env, checkedOut>>
  /\ req' = [req EXCEPT ![r] =
               [Ended(r, 500, NoResp) EXCEPT !.released = 0]]

\* conn.rollback() throws on a broken connection: finally conn.release(),
\* outer catch res.status(500); the server rolls the transaction back when
\* the connection drops
RollbackFails(r) ==
  /\ req[r].pc = "rollback"
  /\ UNCHANGED <<Tables, autoInc, Env>>
  /\ req' = [req EXCEPT ![r] = Ended(r, 500, NoResp)]
  /\ checkedOut' = checkedOut \ {r}

\* The items of the purchase and sales routes are created by POSTs that pass
\* validation and succeed; the POSTs that are rejected or fail are part of
\* SpecPosts.
Next ==
  \/ \E b \in ItemBodies : ~ItemRejected(b) /\ CreateItem(b)
  \/ \E r \in Reqs, b \in PurchaseBodies : StartPurchase(r, b)
  \/ \E r \in Reqs, b \in SaleBodies : StartSale(r, b)
  \/ \E r \in Reqs : GetConnection(r)
  \/ \E r \in Reqs : GetConnectionFails(r)
  \/ \E r \in Reqs : BeginTransaction(r)
  \/ \E r \in Reqs : SaleCount(r)
  \/ \E r \in Reqs : SaleInsert(r)
  \/ \E r \in Reqs : SaleUpdate(r)
  \/ \E r \in Reqs : PurchaseInsert(r)
  \/ \E r \in Reqs : PurchaseUpdate(r)
  \/ \E r \in Reqs : Commit(r)
  \/ \E r \in Reqs : QueryFails(r)
  \/ \E r \in Reqs : Deadlock(r)
  \/ \E r \in Reqs : Rollback(r)
  \/ \E r \in Reqs : RollbackFails(r)

Spec == Init /\ [][Next]_vars

\* the next step of the handler of r that does not throw by chance: the
\* event loop resumes every handler whose awaited call has returned, and the
\* server answers every statement that waits for no lock
Step(r) ==
  \/ GetConnection(r)
  \/ BeginTransaction(r)
  \/ SaleCount(r)
  \/ SaleInsert(r)
  \/ SaleUpdate(r)
  \/ PurchaseInsert(r)
  \/ PurchaseUpdate(r)
  \/ Deadlock(r)
  \/ Commit(r)
  \/ Rollback(r)

\* fair scheduling: no handler that can take its next step is left waiting
\* for ever
SpecLive == Init /\ [][Next]_vars /\ \A r \in Reqs : WF_vars(Step(r))

\* the steps at which the transaction of a request is open
Open == {"count", "insert", "update", "commit", "rollback"}

\* the client of r closes its socket while the transaction is open.  The
\* handler listens for no close or aborted event: it goes on as before and
\* its answer is written to a socket that is gone
ClientDisconnects(r) ==
  /\ req[r].pc \in Open
  /\ req[r].abandoned = "no"
  /\ req' = [req EXCEPT ![r].abandoned = "client"]
  /\ UNCHANGED <<Tables, autoInc, Env, checkedOut>>

\* a server that commits the open transaction of a connection that drops
ProcessFailsCommits ==
  /\ \E r \in Reqs : req[r].pc \in Open
  /\ inventory' = [i \in DOMAIN inventory |->
       IF \E r \in Reqs : req[r].writes[i] # None
         THEN [inventory[i] EXCEPT !.quantity =
                 req[CHOOSE r \in Reqs : req[r].writes[i] # None].writes[i][1]]
         ELSE inventory[i]]
  /\ purchases' = purchases
  /\ sales' = sales
  /\ req' = [r \in Reqs |->
       IF InFlight(r)
         THEN [Ended(r, 0, NoResp) EXCEPT !.abandoned = "process",
                                          !.released = 0]
         ELSE req[r]]
  /\ checkedOut' = {}
  /\ UNCHANGED <<opening, autoInc, Env>>

\* the Node process dies with a transaction open: no handler runs on, no
\* request in progress is answered, the connections of the pool drop and the
\* server rolls back the transaction of each
ProcessFails ==
  /\ \E r \in Reqs : req[r].pc \in Open
  /\ UNCHANGED <<Tables, autoInc, Env>>
  /\ req' = [r \in Reqs |->
       IF InFlight(r)
         THEN [Ended(r, 0, NoResp) EXCEPT !.abandoned = "process",
                                          !.released = 0]
         ELSE req[r]]
  /\ checkedOut' = {}

NextAbandon ==
  \/ Next
  \/ \E r \in Reqs : ClientDisconnects(r)
  \/ ProcessFails

\* the purchase and sales routes with requests that are abandoned
SpecAbandon == Init /\ [][NextAbandon]_vars

\* pool.query calls of the other routes that are in progress, each holding a
\* connection of the pool until its result arrives
Busy == {MaxReq + n : n \in 1..(connectionLimit - 1)}

\* the result of one of them arrives: its connection goes back to the pool
QueryReturns ==
  /\ checkedOut \ Reqs # {}
  /\ LET q == CHOOSE q \in checkedOut \ Reqs :
                 \A o \in checkedOut \ Reqs : o <= q
     IN checkedOut' = checkedOut \ {q}
  /\ UNCHANGED <<Tables, autoInc, Env, req>>

\* the purchase and sales routes while the other routes keep all but one
\* connection of the pool busy
InitPool ==
  /\ expenses = <<>>
  /\ today = 2
  /\ rep = [k \in Reads |-> IdleRead]
  /\ post = NoPost
  /\ inventory = <<>>
  /\ opening = <<>>
  /\ purchases = <<>>
  /\ sales = <<>>
  /\ autoInc = [purchases |-> 1, sales |-> 1]
  /\ priorSales = 0
  /\ year = 2026
  /\ lastYear = 2026
  /\ sequential = FALSE
  /\ req = [r \in Reqs |-> IdleReq]
  /\ checkedOut = Busy

NextPool ==
  \/ Next
  \/ QueryReturns

SpecPool == InitPool /\ [][NextPool]_vars

\* sale requests issued one at a time against a sales table that may already
\* hold rows
InitSeq ==
  /\ expenses = <<>>
  /\ today = 2
  /\ rep = [k \in Reads |-> IdleRead]
  /\ post = NoPost
  /\ inventory = <<>>
  /\ opening = <<>>
  /\ purchases = <<>>
  /\ sales = <<>>
  /\ autoInc = [purchases |-> 1, sales |-> 1]
  /\ priorSales \in PriorSalesChoices
  /\ year = 2026
  /\ lastYear \in Years
  /\ sequential = TRUE
  /\ req = [r \in Reqs |-> IdleReq]
  /\ checkedOut = {}

SpecSeq == InitSeq /\ [][Next]_vars

----------------------------------------------------------------------------
(* Reports route, the GET of the four list routes and the expenses POST.   *)
(* Every statement goes through pool.query: it runs on its own, outside    *)
(* any transaction, and sees what is committed when it runs.               *)

Ledger == <<Tables, autoInc, priorSales, year, lastYear, sequential, req,
            checkedOut>>

\* history: the number of committed ledger rows; rows are only ever appended
Version == Len(purchases) + Len(sales) + Len(expenses)

\* date >= ? AND date < ?: the last day of the range left out
BetweenExclusive(d, from, to) == from <= d /\ d < to

\* date BETWEEN ? AND ?
Between(d, from, to) == from <= d /\ d <= to

\* SELECT * FROM t WHERE date BETWEEN ? AND ?: a scan in primary-key order
Where(rows, from, to) ==
  SelectSeq(rows, LAMBDA row : Between(row.date, from, to))

\* IFNULL(SUM(x), 0) over a sequence of values
RECURSIVE SumSeq(_)
SumSeq(xs) == IF xs = <<>> THEN 0 ELSE Head(xs) + SumSeq(Tail(xs))

\* SELECT IFNULL(SUM(grand_total),0) FROM sales WHERE date BETWEEN ? AND ?
TotalSales(from, to) ==
  LET rows == Where(sales, from, to)
  IN SumSeq([k \in DOMAIN rows |-> rows[k].grand_total])

\* SELECT IFNULL(SUM(quantity*rate),0) FROM purchases WHERE date BETWEEN ..
TotalPurchases(from, to) ==
  LET rows == Where(purchases, from, to)
  IN SumSeq([k \in DOMAIN rows |-> Mul(rows[k].quantity, rows[k].rate)])

\* SELECT IFNULL(SUM(amount),0) FROM expenses WHERE date BETWEEN ? AND ?
TotalExpenses(from, to) ==
  LET rows == Where(expenses, from, to)
  IN SumSeq([k \in DOMAIN rows |-> rows[k].amount])

Summary(salesAgg, purchaseAgg, expenseAgg) ==
  [sales |-> salesAgg, purchases |-> purchaseAgg, expenses |-> expenseAgg,
   netProfit |-> salesAgg - (purchaseAgg + expenseAgg)]

\* the current month, from new Date(y, m, 1) to new Date(y, m + 1, 0), both
\* local midnights, cut from toISOString(): the same days where the server's
\* zone is at or behind UTC, the days before them where it is ahead
DefaultRanges == {<<1, MaxDay>>, <<0, MaxDay - 1>>}

\* from && to: both given (a date-only string is read as UTC and comes back
\* from toISOString() as the same day), else the current month
Ranges(q) ==
  IF q.from # None /\ q.to # None THEN {<<q.from[1], q.to[1]>>}
  ELSE DefaultRanges

ArrivesRead(k) ==
  /\ rep[k].pc = "idle"
  /\ \A o \in Reads : o < k => rep[o].pc # "idle"

StartReport(k, q) ==
  /\ ArrivesRead(k)
  /\ \E range \in Ranges(q) :
       rep' = [rep EXCEPT ![k] =
                 [@ EXCEPT !.kind = "report", !.query = q,
                           !.fromStr = range[1], !.toStr = range[2],
                           !.pc = "sales"]]
  /\ UNCHANGED <<Ledger, expenses, today, post>>

\* the sales total kept in a variable of the module that outlives the
\* request: every report adds to what the reports before it have left
ReportSalesAccumulates(k) ==
  /\ rep[k].pc = "sales"
  /\ Cardinality(checkedOut) < connectionLimit
  /\ rep' = [rep EXCEPT
       ![k].salesAgg =
          TotalSales(rep[k].fromStr, rep[k].toStr)
            + SumSeq([o \in Reads |-> IF o < k THEN rep[o].salesAgg ELSE 0]),
       ![k].first = Version,
       ![k].pc = "purchases"]
  /\ UNCHANGED <<Ledger, expenses, today, post>>

ReportSales(k) ==
  /\ rep[k].pc = "sales"
  /\ Cardinality(checkedOut) < connectionLimit
  /\ rep' = [rep EXCEPT
       ![k].salesAgg = TotalSales(rep[k].fromStr, rep[k].toStr),
       ![k].first = Version,
       ![k].pc = "purchases"]
  /\ UNCHANGED <<Ledger, expenses, today, post>>

ReportPurchases(k) ==
  /\ rep[k].pc = "purchases"
  /\ Cardinality(checkedOut) < connectionLimit
  /\ rep' = [rep EXCEPT
       ![k].purchaseAgg = TotalPurchases(rep[k].fromStr, rep[k].toStr),
       ![k].pc = "expenses"]
  /\ UNCHANGED <<Ledger, expenses, today, post>>

\* the third total, the summary, and the answer when no detail is asked
ReportExpenses(k) ==
  /\ rep[k].pc = "expenses"
  /\ Cardinality(checkedOut) < connectionLimit
  /\ LET expenseAgg == TotalExpenses(rep[k].fromStr, rep[k].toStr)
     IN rep' = [rep EXCEPT
          ![k].expenseAgg = expenseAgg,
          ![k].summary = Summary(rep[k].salesAgg, rep[k].purchaseAgg,
                                 expenseAgg),
          ![k].last = Version,
          ![k].status = IF rep[k].query.detail THEN 0 ELSE 200,
          ![k].pc = IF rep[k].query.detail THEN "detailSales" ELSE "done"]
  /\ UNCHANGED <<Ledger, expenses, today, post>>

DetailSales(k) ==
  /\ rep[k].pc = "detailSales"
  /\ Cardinality(checkedOut) < connectionLimit
  /\ rep' = [rep EXCEPT
       ![k].lists.sales = Where(sales, rep[k].fromStr, rep[k].toStr),
       ![k].pc = "detailPurchases"]
  /\ UNCHANGED <<Ledger, expenses, today, post>>

DetailPurchases(k) ==
  /\ rep[k].pc = "detailPurchases"
  /\ Cardinality(checkedOut) < connectionLimit
  /\ rep' = [rep EXCEPT
       ![k].lists.purchases = Where(purchases, rep[k].fromStr, rep[k].toStr),
       ![k].pc = "detailExpenses"]
  /\ UNCHANGED <<Ledger, expenses, today, post>>

DetailExpenses(k) ==
  /\ rep[k].pc = "detailExpenses"
  /\ Cardinality(checkedOut) < connectionLimit
  /\ rep' = [rep EXCEPT
       ![k].lists.expenses = Where(expenses, rep[k].fromStr, rep[k].toStr),
       ![k].last = Version,
       ![k].status = 200,
       ![k].pc = "done"]
  /\ UNCHANGED <<Ledger, expenses, today, post>>

StartList(k, t) ==
  /\ ArrivesRead(k)
  /\ rep' = [rep EXCEPT ![k] = [@ EXCEPT !.kind = "list", !.table = t,
                                         !.pc = "list"]]
  /\ UNCHANGED <<Ledger, expenses, today, post>>

\* the rows of a table as a set: SELECT * FROM t [ORDER BY date DESC], the
\* order among rows of one date being left to the server
Rows(t) ==
  CASE t = "inventory" ->
         {[id |-> i, quantity |-> inventory[i].quantity,
           rate |-> inventory[i].rate] : i \in DOMAIN inventory}
    [] t = "purchases" -> {purchases[i] : i \in DOMAIN purchases}
    [] t = "sales" -> {sales[i] : i \in DOMAIN sales}
    [] t = "expenses" -> {expenses[i] : i \in DOMAIN expenses}

\* a list that archives what it has shown: the expenses listed are deleted
ListQueryArchives(k) ==
  /\ rep[k].pc = "list"
  /\ Cardinality(checkedOut) < connectionLimit
  /\ rep' = [rep EXCEPT ![k].rows = Rows(rep[k].table),
                        ![k].first = Version, ![k].last = Version,
                        ![k].status = 200, ![k].pc = "done"]
  /\ expenses' = IF rep[k].table = "expenses" THEN <<>> ELSE expenses
  /\ UNCHANGED <<Ledger, today, post>>

ListQuery(k) ==
  /\ rep[k].pc = "list"
  /\ Cardinality(checkedOut) < connectionLimit
  /\ rep' = [rep EXCEPT ![k].rows = Rows(rep[k].table),
                        ![k].first = Version, ![k].last = Version,
                        ![k].status = 200, ![k].pc = "done"]
  /\ UNCHANGED <<Ledger, expenses, today, post>>

\* a query throws: catch, res.status(500)
ReadFails(k) ==
  /\ rep[k].pc \notin {"idle", "done"}
  /\ rep' = [rep EXCEPT ![k] =
               [IdleRead EXCEPT !.kind = rep[k].kind, !.table = rep[k].table,
                                !.query = rep[k].query,
                                !.status = 500, !.pc = "done"]]
  /\ UNCHANGED <<Ledger, expenses, today, post>>

\* !description || !amount
\* a test for missing fields only: if (!description || amount === undefined)
ExpenseRejectedIfAbsent(b) == ~b.description \/ b.amount = None

\* if (!description || !amount)
ExpenseRejected(b) == ~b.description \/ ~Truthy(b.amount)

ExpenseRow(b) ==
  [id |-> Len(expenses) + 1,
   amount |-> Dec2(b.amount[1]),
   date |-> IF b.date # None THEN b.date[1] ELSE today]

CreateExpense(b) ==
  /\ Cardinality(checkedOut) < connectionLimit
  /\ IF ExpenseRejected(b)
       THEN /\ UNCHANGED expenses
            /\ post' = Posted("expenses", b, 400, 0)
       ELSE /\ Len(expenses) < MaxExpenses
            /\ expenses' = Append(expenses, ExpenseRow(b))
            /\ post' = Posted("expenses", b, 201, Len(expenses) + 1)
  /\ UNCHANGED <<Ledger, today, rep>>

\* the INSERT throws: nothing is inserted
CreateExpenseFails(b) ==
  /\ Cardinality(checkedOut) < connectionLimit
  /\ ~ExpenseRejected(b)
  /\ post' = Posted("expenses", b, 500, 0)
  /\ UNCHANGED <<Ledger, expenses, today, rep>>

NextReads ==
  \/ \E k \in Reads, q \in ReportQueries : StartReport(k, q)
  \/ \E k \in Reads : ReportSales(k)
  \/ \E k \in Reads : ReportPurchases(k)
  \/ \E k \in Reads : ReportExpenses(k)
  \/ \E k \in Reads : DetailSales(k)
  \/ \E k \in Reads : DetailPurchases(k)
  \/ \E k \in Reads : DetailExpenses(k)
  \/ \E k \in Reads, t \in ListTables : StartList(k, t)
  \/ \E k \in Reads : ListQuery(k)
  \/ \E k \in Reads : ReadFails(k)
  \/ \E b \in ExpenseBodies : ~ExpenseRejected(b) /\ CreateExpense(b)

\* rows as the purchase and sales handlers leave them: purchase n of
\* PurchaseBodies and sale n of SaleBodies, committed on day d
LedgerPurchase(n, d) ==
  IF n = 1
    THEN [id |-> 1, item_id |-> 1, quantity |-> H(50), rate |-> H(900),
          date |-> d, req |-> 0]
    ELSE [id |-> 2, item_id |-> 2, quantity |-> H(200), rate |-> H(300),
          date |-> d, req |-> 0]

LedgerSale(n, d) ==
  IF n = 1
    THEN [id |-> 1, invoice_number |-> InvoiceNumber(2026, 1),
          items |-> <<Line(Some(1), Some(H(100)), Some(H(1000)))>>,
          taxable_total |-> H(1000), cgst |-> H(500), sgst |-> H(500),
          igst |-> 0, grand_total |-> H(2000), date |-> d, req |-> 0]
    ELSE [id |-> 2, invoice_number |-> InvoiceNumber(2026, 2),
          items |-> <<Line(Some(1), Some(H(200)), Some(H(300))),
                      Line(Some(2), Some(H(100)), Some(H(300)))>>,
          taxable_total |-> H(900), cgst |-> 0, sgst |-> 0,
          igst |-> 0, grand_total |-> H(900), date |-> d, req |-> 0]

\* ledgers of earlier days: the dates of the purchase rows and of the sale
\* rows
LedgerDates ==
  { <<<<>>, <<>>>>, <<<<1>>, <<2>>>>,
    <<<<1, MaxDay>>, <<2, 2>>>>, <<<<2, 2>>, <<1, MaxDay>>>> }

\* what the UPDATE statements of the committed purchases and sales have
\* added to the quantity of item i
Moved(i) ==
  SumSeq([n \in DOMAIN purchases |->
            IF purchases[n].item_id = i THEN purchases[n].quantity ELSE 0])
  - SumSeq([n \in DOMAIN sales |->
              SumSeq([k \in DOMAIN sales[n].items |->
                        IF /\ IssuesUpdate(sales[n].items[k])
                           /\ sales[n].items[k].item_id[1] = i
                          THEN sales[n].items[k].quantity[1] ELSE 0])])

\* two items created with 5.00 and 3.00, then the purchases and sales of the
\* ledger
InitReads ==
  /\ \E dates \in LedgerDates :
       /\ purchases = [n \in DOMAIN dates[1] |-> LedgerPurchase(n, dates[1][n])]
       /\ sales = [n \in DOMAIN dates[2] |-> LedgerSale(n, dates[2][n])]
  /\ opening = <<H(500), H(300)>>
  /\ inventory =
       [i \in 1..2 |->
          [quantity |-> opening[i] + Moved(i), rate |-> H(1000)]]
  /\ autoInc = [purchases |-> Len(purchases) + 1, sales |-> Len(sales) + 1]
  /\ priorSales = 0
  /\ year = 2026
  /\ lastYear = 2026
  /\ sequential = FALSE
  /\ req = [r \in Reqs |-> IdleReq]
  /\ checkedOut = {}
  /\ expenses = <<>>
  /\ today = 2
  /\ rep = [k \in Reads |-> IdleRead]
  /\ post = NoPost

SpecReads == InitReads /\ [][NextReads]_vars

----------------------------------------------------------------------------
(* The POST of the inventory route and of the expenses route, with every   *)
(* body and with the INSERT that throws, against an empty database or one  *)
(* that holds an item, a purchase row and a sale row of it.                *)

InitPosts ==
  /\ \E stocked \in BOOLEAN :
       /\ purchases = IF stocked THEN <<LedgerPurchase(1, 1)>> ELSE <<>>
       /\ sales = IF stocked THEN <<LedgerSale(1, 2)>> ELSE <<>>
       /\ opening = IF stocked THEN <<H(500)>> ELSE <<>>
  /\ inventory =
       [i \in DOMAIN opening |->
          [quantity |-> opening[i] + Moved(i), rate |-> H(1000)]]
  /\ autoInc = [purchases |-> Len(purchases) + 1, sales |-> Len(sales) + 1]
  /\ priorSales = 0
  /\ year = 2026
  /\ lastYear = 2026
  /\ sequential = FALSE
  /\ req = [r \in Reqs |-> IdleReq]
  /\ checkedOut = {}
  /\ expenses = <<>>
  /\ today = 2
  /\ rep = [k \in Reads |-> IdleRead]
  /\ post = NoPost

NextPosts ==
  \/ \E b \in ItemBodies : CreateItem(b)
  \/ \E b \in ItemBodies : CreateItemFails(b)
  \/ \E b \in ExpenseBodies : CreateExpense(b)
  \/ \E b \in ExpenseBodies : CreateExpenseFails(b)

SpecPosts == InitPosts /\ [][NextPosts]_vars

----------------------------------------------------------------------------
(* Properties *)

Quiescent == \A r \in Reqs : ~InFlight(r)

\* a ledger row written by request r is in the committed tables
RecordVisible(r) ==
  \/ \E k \in DOMAIN purchases : purchases[k].req = r
  \/ \E k \in DOMAIN sales : sales[k].req = r

\* sum of the quantities of the first n purchase rows referencing item i
RECURSIVE PurchasedQty(_, _)
PurchasedQty(i, n) ==
  IF n = 0 THEN 0
  ELSE PurchasedQty(i, n - 1)
       + (IF purchases[n].item_id = i THEN purchases[n].quantity ELSE 0)

\* sum of the quantities of the first n lines that reference item i and sell
\* something (a line of quantity 0 or less is no sale of stock)
RECURSIVE LineQty(_, _, _)
LineQty(lines, i, n) ==
  IF n = 0 THEN 0
  ELSE LineQty(lines, i, n - 1)
       + (IF lines[n].item_id = Some(i) /\ OrZero(lines[n].quantity) > 0
            THEN lines[n].quantity[1] ELSE 0)

\* the same over the lines of the first n sale rows
RECURSIVE SoldQty(_, _)
SoldQty(i, n) ==
  IF n = 0 THEN 0
  ELSE SoldQty(i, n - 1) + LineQty(sales[n].items, i, Len(sales[n].items))

\* C1: with no call in progress, the quantity of every item is its opening
\* quantity plus the quantities of the committed purchase rows referencing it
\* minus the quantities of the lines referencing it in committed sale rows
\* (read in the claim's favour: only lines that sell a quantity > 0 count).
C1_Conservation ==
  Quiescent =>
    \A i \in DOMAIN inventory :
      inventory[i].quantity =
        opening[i] + PurchasedQty(i, Len(purchases)) - SoldQty(i, Len(sales))

\* sum over the committed requests among 1..n of the deltas their UPDATE
\* statements carried for item i
RECURSIVE CommittedDelta(_, _)
CommittedDelta(i, n) ==
  IF n = 0 THEN 0
  ELSE CommittedDelta(i, n - 1)
       + (IF req[n].status = 201 THEN req[n].stmtDelta[i] ELSE 0)

\* C2: once every transaction has committed or rolled back, the quantity of
\* every item is its opening quantity plus the delta of every UPDATE of every
\* committed transaction, whatever the interleaving: no update is lost.
C2_NoLostUpdate ==
  Quiescent =>
    \A i \in DOMAIN inventory :
      inventory[i].quantity = opening[i] + CommittedDelta(i, MaxReq)

\* two sales that overlapped (the row committed first was inserted second),
\* each with an UPDATE on item 1, both committed, stock sufficient for both
C2_Witness ==
  /\ Quiescent
  /\ purchases = <<>>
  /\ \E k, l \in DOMAIN sales :
       /\ k < l
       /\ sales[k].id > sales[l].id
       /\ req[sales[k].req].stmtDelta[1] < 0
       /\ req[sales[l].req].stmtDelta[1] < 0
       /\ opening[1] + req[sales[k].req].stmtDelta[1]
                     + req[sales[l].req].stmtDelta[1] >= 0
       /\ inventory[1].quantity =
            opening[1] + req[sales[k].req].stmtDelta[1]
                       + req[sales[l].req].stmtDelta[1]

C4_SaleRollsBack ==
  \A r \in Reqs :
    (/\ req[r].kind = "sale"
     /\ req[r].status = 500
     /\ req[r].i \in 1..Len(req[r].body.items.lines))
    => /\ ~RecordVisible(r)
       /\ req[r].applied = ZeroDelta

\* a sale that failed at its second UPDATE after its first had run
C4_Witness ==
  \E r \in Reqs :
    /\ req[r].kind = "sale"
    /\ req[r].status = 500
    /\ req[r].i = 2
    /\ req[r].stmtDelta # ZeroDelta

\* C5: a sale with a line of quantity > 0 whose item id has no inventory row
\* fails: it is not answered 201 and no sale row of it is visible.
C5_UnknownItemFails ==
  \A r \in Reqs :
    (/\ req[r].kind = "sale"
     /\ req[r].pc = "done"
     /\ \E n \in DOMAIN req[r].body.items.lines :
          /\ IssuesUpdate(req[r].body.items.lines[n])
          /\ req[r].body.items.lines[n].item_id[1] \notin DOMAIN inventory)
    => /\ req[r].status # 201
       /\ ~RecordVisible(r)

\* C6: a purchase whose item id is absent, or whose quantity or rate is not
\* greater than 0 (absent, zero or negative), is rejected: it is never
\* answered 201, no purchase row of it becomes visible and it changes no
\* inventory quantity.
C6_PurchaseValidated ==
  \A r \in Reqs :
    (/\ req[r].kind = "purchase"
     /\ \/ req[r].body.item_id = None
        \/ req[r].body.quantity = None
        \/ req[r].body.rate = None
        \/ req[r].body.quantity[1] <= 0
        \/ req[r].body.rate[1] <= 0)
    => /\ req[r].status # 201
       /\ ~RecordVisible(r)
       /\ req[r].applied = ZeroDelta

\* C7: a sale whose items value is missing, not a list or an empty list is
\* answered 400 at once: it never holds a connection, has no invoice number,
\* no sale row, visible or not, and changes no quantity.
C7_SaleValidated ==
  \A r \in Reqs :
    (/\ req[r].kind = "sale"
     /\ \/ req[r].body.items.kind \in {"absent", "scalar"}
        \/ req[r].body.items.lines = <<>>)
    => /\ req[r].pc = "done"
       /\ req[r].status = 400
       /\ r \notin checkedOut
       /\ req[r].invoiceNumber = <<>>
       /\ req[r].resp = NoResp
       /\ req[r].newRows = <<>>
       /\ ~RecordVisible(r)
       /\ req[r].stmtDelta = ZeroDelta
       /\ req[r].applied = ZeroDelta

\* a rejected empty list and a rejected missing list, next to a sale that was
\* accepted and committed
C7_Witness ==
  /\ sales # <<>>
  /\ \E r, o \in Reqs :
       /\ req[r].kind = "sale" /\ req[r].status = 400
       /\ req[r].body.items = Array(<<>>)
       /\ req[o].kind = "sale" /\ req[o].status = 201

\* sum over the first n lines of rate x quantity, an absent rate or quantity
\* counting 0
RECURSIVE LineSum(_, _)
LineSum(lines, n) ==
  IF n = 0 THEN 0
  ELSE LineSum(lines, n - 1)
       + Mul(IF lines[n].rate = None THEN 0 ELSE lines[n].rate[1],
             IF lines[n].quantity = None THEN 0 ELSE lines[n].quantity[1])

\* the tax amount f the caller of the sale supplied, 0 when absent
Supplied(b, f) ==
  IF b.taxes.present /\ b.taxes[f] # None THEN b.taxes[f][1] ELSE 0

\* C8 as claimed: for every committed sale the persisted and the returned
\* totals are exactly taxableTotal = sum of rate x quantity over the lines
\* and grandTotal = taxableTotal + cgst + sgst + igst, the taxes being the
\* supplied values.
C8_TotalsExact ==
  \A k \in DOMAIN sales :
    LET row == sales[k]
        b == req[row.req].body
        taxable == LineSum(row.items, Len(row.items))
        grand == taxable + Supplied(b, "cgst") + Supplied(b, "sgst")
                         + Supplied(b, "igst")
    IN /\ row.taxable_total = taxable
       /\ row.cgst = Supplied(b, "cgst")
       /\ row.sgst = Supplied(b, "sgst")
       /\ row.igst = Supplied(b, "igst")
       /\ row.grand_total = grand
       /\ req[row.req].resp.grand_total = grand

\* C8 amended: the returned grand total is exactly the sum of rate x quantity
\* over the lines plus the three supplied taxes; each persisted total and tax
\* is the exact value rounded to two fractional digits.
C8_TotalsRounded ==
  \A k \in DOMAIN sales :
    LET row == sales[k]
        b == req[row.req].body
        taxable == LineSum(row.items, Len(row.items))
        grand == taxable + Supplied(b, "cgst") + Supplied(b, "sgst")
                         + Supplied(b, "igst")
    IN /\ row.taxable_total = Dec2(taxable)
       /\ row.cgst = Dec2(Supplied(b, "cgst"))
       /\ row.sgst = Dec2(Supplied(b, "sgst"))
       /\ row.igst = Dec2(Supplied(b, "igst"))
       /\ row.grand_total = Dec2(grand)
       /\ req[row.req].resp.grand_total = grand

\* a committed sale whose exact taxable total has more than two fractional
\* digits and whose igst is not 0, and a committed sale with exact totals
C8_Witness ==
  \E k, l \in DOMAIN sales :
    /\ LineSum(sales[k].items, Len(sales[k].items)) % Scale # 0
    /\ sales[k].igst # 0
    /\ sales[l].taxable_total = LineSum(sales[l].items, Len(sales[l].items))
    /\ sales[l].grand_total > sales[l].taxable_total

Digits == {"0", "1", "2", "3", "4", "5", "6", "7", "8", "9"}

\* the natural number a sequence of digits denotes
RECURSIVE Number(_)
Number(s) ==
  IF s = <<>> THEN 0
  ELSE 10 * Number(SubSeq(s, 1, Len(s) - 1))
       + (CHOOSE d \in 0..9 : Digit(d) = s[Len(s)])

YearPart(inv) == SubSeq(inv, 5, 8)
SeqPart(inv) == SubSeq(inv, 10, Len(inv))

\* INV-, four digits, -, three or more digits
WellFormed(inv) ==
  /\ Len(inv) >= 12
  /\ SubSeq(inv, 1, 4) = <<"I", "N", "V", "-">>
  /\ \A k \in 5..8 : inv[k] \in Digits
  /\ inv[9] = "-"
  /\ \A k \in 10..Len(inv) : inv[k] \in Digits

\* C9: with sales executed one at a time, every invoice number generated has
\* the form INV-<4 digits>-<3 or more digits>, the four digits being the year
\* the clock showed when it was generated, and among the committed sales the
\* sequence number of a sale is greater than that of every sale of the same
\* year committed before it.
C9_InvoiceNumbers ==
  /\ \A r \in Reqs :
       req[r].invoiceNumber # <<>> =>
         /\ WellFormed(req[r].invoiceNumber)
         /\ Number(YearPart(req[r].invoiceNumber)) = year
  /\ \A k \in DOMAIN sales :
       /\ WellFormed(sales[k].invoice_number)
       /\ Number(YearPart(sales[k].invoice_number)) \in 2026..year
  /\ \A k, l \in DOMAIN sales :
       (k < l /\ YearPart(sales[k].invoice_number)
                   = YearPart(sales[l].invoice_number))
       => Number(SeqPart(sales[k].invoice_number))
            < Number(SeqPart(sales[l].invoice_number))

\* sales 999 and 1000 of one year committed one after the other
C9_Witness ==
  /\ Len(sales) = 2
  /\ YearPart(sales[1].invoice_number) = YearPart(sales[2].invoice_number)
  /\ SeqPart(sales[1].invoice_number) = <<"9", "9", "9">>
  /\ SeqPart(sales[2].invoice_number) = <<"1", "0", "0", "0">>

\* C10: no two committed sale rows carry the same invoice number.
C10_Unique ==
  \A k, l \in DOMAIN sales :
    k # l => sales[k].invoice_number # sales[l].invoice_number

\* the step in which request r returns 201
Succeeds(r) == req[r].status # 201 /\ req'[r].status = 201

\* C11: the step in which a purchase succeeds appends exactly one purchase
\* row, holding the supplied item id, quantity and rate and the id the
\* response returns, adds exactly the quantity to the quantity of that item,
\* and changes no other quantity, no earlier purchase row and no sale row.
C11_PurchaseEffect ==
  [][\A r \in Reqs :
       (Succeeds(r) /\ req[r].kind = "purchase") =>
         LET b == req[r].body
         IN /\ Len(purchases') = Len(purchases) + 1
            /\ SubSeq(purchases', 1, Len(purchases)) = purchases
            /\ purchases'[Len(purchases')].item_id = b.item_id[1]
            /\ purchases'[Len(purchases')].quantity = b.quantity[1]
            /\ purchases'[Len(purchases')].rate = b.rate[1]
            /\ purchases'[Len(purchases')].id = req'[r].resp.id
            /\ \A k \in DOMAIN purchases :
                 purchases[k].id # req'[r].resp.id
            /\ DOMAIN inventory' = DOMAIN inventory
            /\ \A i \in DOMAIN inventory :
                 inventory'[i].quantity =
                   inventory[i].quantity
                     + (IF i = b.item_id[1] THEN b.quantity[1] ELSE 0)
            /\ sales' = sales]_vars

\* a purchase of 0.50 at 9.00 on item 1 (quantity 3.00 before, 3.50 after),
\* committed next to a second item and an earlier purchase row on it
C11_Witness ==
  /\ Len(inventory) = 2
  /\ Len(purchases) = 2
  /\ purchases[1].item_id = 2
  /\ purchases[2].item_id = 1 /\ purchases[2].quantity = H(50)
  /\ req[purchases[2].req].applied[1] = H(50)
  /\ inventory[1].quantity = opening[1] + H(50)

\* C12: the step in which a sale succeeds appends exactly one sale row,
\* holding the full list of lines of the request, and takes from the quantity
\* of every item exactly the sum of the quantities of the lines that
\* reference it with a quantity > 0: nothing for a line of quantity <= 0,
\* nothing from an item no line references.
C12_SaleEffect ==
  [][\A r \in Reqs :
       (Succeeds(r) /\ req[r].kind = "sale") =>
         LET lines == req[r].body.items.lines
         IN /\ Len(sales') = Len(sales) + 1
            /\ SubSeq(sales', 1, Len(sales)) = sales
            /\ sales'[Len(sales')].items = lines
            /\ DOMAIN inventory' = DOMAIN inventory
            /\ \A i \in DOMAIN inventory :
                 inventory'[i].quantity =
                   inventory[i].quantity - LineQty(lines, i, Len(lines))]_vars

\* a committed sale with two lines of quantity > 0 on item 1 (0.50 and
\* 0.25), a line of quantity -1.00 on it and a line without an item: item 1
\* is down by 0.75 and item 2 is as it was
C12_Witness ==
  \E r \in Reqs :
    /\ req[r].kind = "sale" /\ req[r].status = 201
    /\ Len(req[r].body.items.lines) = 4
    /\ Len(inventory) = 2
    /\ req[r].applied = [i \in ItemIds |-> IF i = 1 THEN -H(75) ELSE 0]

\* C13: a purchase that passed validation and failed (its item id has no
\* inventory row, or a statement of its transaction failed) is answered 500,
\* has no visible purchase row and has changed no quantity; a purchase is
\* answered 201 only with its row visible and its item existing.
C13_PurchaseFailure ==
  \A r \in Reqs :
    req[r].kind = "purchase" =>
      /\ (req[r].pc = "done" /\ ~PurchaseRejected(req[r].body))
           => req[r].status \in {201, 500}
      /\ req[r].pc = "rollback" => ~RecordVisible(r)
      /\ req[r].status = 500
           => /\ ~RecordVisible(r)
              /\ req[r].applied = ZeroDelta
              /\ req[r].resp = NoResp
      /\ req[r].status = 201
           => /\ RecordVisible(r)
              /\ req[r].body.item_id[1] \in DOMAIN inventory

\* a purchase that failed on an item id without a row, next to a purchase
\* that failed after its UPDATE had run
C13_Witness ==
  \E r, o \in Reqs :
    /\ req[r].kind = "purchase" /\ req[r].status = 500
    /\ req[r].body.item_id[1] \notin DOMAIN inventory
    /\ req[o].kind = "purchase" /\ req[o].status = 500
    /\ req[o].stmtDelta # ZeroDelta

\* the rows of a table dated within from..to, both days included
InWindow(rows, from, to) ==
  {n \in DOMAIN rows : rows[n].date >= from /\ rows[n].date <= to}

\* sum of val[n] over the n in S
RECURSIVE Total(_, _)
Total(val, S) ==
  IF S = {} THEN 0
  ELSE LET n == CHOOSE n \in S : TRUE IN val[n] + Total(val, S \ {n})

\* a report answered 200 for the range from..to it was asked for
Reported(k) ==
  /\ rep[k].kind = "report"
  /\ rep[k].status = 200
  /\ rep[k].query.from # None /\ rep[k].query.to # None

\* C14: a report asked for from..to, with no row committed since its first
\* query, returns sales = sum of grand_total of the sale rows dated within
\* from..to (both days included), purchases = sum of quantity x rate of the
\* purchase rows so dated, expenses = sum of amount of the expense rows so
\* dated, each 0 when no row is so dated, and netProfit = sales - (purchases
\* + expenses).
C14_Summary ==
  \A k \in Reads :
    (Reported(k) /\ rep[k].first = Version) =>
      LET from == rep[k].query.from[1]
          to == rep[k].query.to[1]
          s == Total([n \in DOMAIN sales |-> sales[n].grand_total],
                     InWindow(sales, from, to))
          p == Total([n \in DOMAIN purchases |->
                        (purchases[n].quantity * purchases[n].rate) \div Unit],
                     InWindow(purchases, from, to))
          e == Total([n \in DOMAIN expenses |-> expenses[n].amount],
                     InWindow(expenses, from, to))
      IN /\ rep[k].summary.sales = s
         /\ rep[k].summary.purchases = p
         /\ rep[k].summary.expenses = e
         /\ rep[k].summary.netProfit = s - (p + e)

\* the report of day 2..2 over two sales of day 2 (20.00 and 9.00), two
\* purchases of days 1 and 3, an expense of day 2 (0.50) and one of day 1
C14_Witness ==
  \E k \in Reads :
    /\ Reported(k) /\ rep[k].first = Version
    /\ rep[k].query.from = Some(2) /\ rep[k].query.to = Some(2)
    /\ Len(purchases) = 2 /\ Len(expenses) = 2
    /\ rep[k].summary =
         [sales |-> H(2900), purchases |-> 0, expenses |-> H(50),
          netProfit |-> H(2850)]

\* no row was committed between the first query of a and the last of b
NothingWrittenBetween(a, b) ==
  /\ rep[a].first = rep[a].last
  /\ rep[a].last = rep[b].first
  /\ rep[b].first = rep[b].last

C16_ReadOnly ==
  [][rep' # rep => UNCHANGED <<inventory, purchases, sales, expenses>>]_vars

\* a detailed report and a list of the expenses, both answered with rows
C16_Witness ==
  \E a, b \in Reads :
    /\ Reported(a) /\ rep[a].query.detail /\ rep[a].lists.sales # <<>>
    /\ rep[b].kind = "list" /\ rep[b].table = "expenses"
    /\ rep[b].status = 200 /\ rep[b].rows # {}

\* the item ids the body of request r references
Referenced(r) ==
  IF req[r].kind = "purchase"
    THEN {req[r].body.item_id[n] : n \in DOMAIN req[r].body.item_id}
    ELSE {req[r].body.items.lines[n].item_id[1] :
            n \in {m \in DOMAIN req[r].body.items.lines :
                     req[r].body.items.lines[m].item_id # None}}

\* the statement r stands at can take the lock it asks for
LockGranted(r) ==
  \A i \in Wanted(r) :
    IF req[r].kind = "purchase" /\ req[r].pc = "insert"
      THEN CanLockS(r, i) ELSE CanLockX(r, i)

\* C17: of two transactions in progress whose sets of referenced items are
\* disjoint, neither ever stands at a statement that waits for a lock the
\* other holds; a statement is kept waiting only by such a lock.
C17_DisjointIndependent ==
  /\ \A r, o \in Reqs :
       (/\ InFlight(r) /\ InFlight(o)
        /\ Referenced(r) \cap Referenced(o) = {})
       => ~WaitsFor(r, o)
  /\ \A r \in Reqs :
       InFlight(r) => (LockGranted(r) <=> \A o \in Reqs : ~WaitsFor(r, o))

\* a purchase on one item and a transaction on the other, each holding the
\* lock of the row it has updated, neither waiting
C17_Witness ==
  \E r, o \in Reqs :
    /\ r # o
    /\ req[r].kind = "purchase"
    /\ Referenced(r) \cap Referenced(o) = {}
    /\ XLocks(r) # {} /\ XLocks(o) # {}
    /\ Len(inventory) = 2

\* the existing items the statements of request r update
Updated(r) ==
  IF req[r].kind = "purchase"
    THEN {req[r].body.item_id[1]} \cap DOMAIN inventory
    ELSE {req[r].body.items.lines[n].item_id[1] :
            n \in {m \in DOMAIN req[r].body.items.lines :
                     IssuesUpdate(req[r].body.items.lines[m])}}
         \cap DOMAIN inventory

\* C18: a transaction in progress that has written its ledger record holds
\* the exclusive lock of the row of every item it updates (the lock is taken
\* before the record is written and kept to the end), so that while one
\* transaction holds the lock of an item no other transaction on that item
\* has a ledger record written.
C18_LockBeforeRecord ==
  /\ \A r \in Reqs :
       (InFlight(r) /\ req[r].pc # "rollback" /\ req[r].newRows # <<>>)
       => Updated(r) \subseteq XLocks(r)
  /\ \A r, o \in Reqs :
       (r # o /\ InFlight(r) /\ XLocks(o) \cap Updated(r) # {})
       => req[r].newRows = <<>>

\* C19: under fair scheduling every purchase or sale transaction that has
\* started ends: it has committed or rolled back, its connection is back in
\* the pool and its request has its response.
C19_Terminates ==
  \A r \in Reqs :
    InFlight(r) ~> (/\ req[r].pc = "done"
                    /\ req[r].status \in {201, 500}
                    /\ r \notin checkedOut)

\* two sales on the same two items in opposite order, each holding the lock
\* of the row its first line updated and waiting for the row the other holds
C19_Witness ==
  \E r, o \in Reqs :
    /\ r # o
    /\ req[r].kind = "sale" /\ req[o].kind = "sale"
    /\ req[r].pc = "update" /\ req[o].pc = "update"
    /\ XLocks(r) = {1} /\ XLocks(o) = {2}
    /\ Wanted(r) = {2} /\ Wanted(o) = {1}
    /\ InCycle(r) /\ InCycle(o)

\* what request r left in the visible state: nothing of it
LeftNothing(r) == ~RecordVisible(r) /\ req[r].applied = ZeroDelta

\* what request r left in the visible state: its ledger row and the deltas
\* of all its UPDATE statements
LeftAll(r) == RecordVisible(r) /\ req[r].applied = req[r].stmtDelta

\* C20 as stated: a request abandoned while its transaction was open, by its
\* client or by the failure of the process, has left neither its ledger row
\* nor a quantity change in the visible state.
C20_AbandonedLeavesNothing ==
  \A r \in Reqs :
    req[r].abandoned # "no" => LeftNothing(r)

\* C20, amended: a request abandoned while its transaction was open has left
\* in the visible state either nothing or its ledger row together with all
\* its quantity changes, never a part; after a failure of the process it has
\* left nothing, and after a disconnect of the client it has left exactly
\* what its handler, which runs on, answered: all with 201, nothing otherwise.
C20_AbandonedLeavesNoPart ==
  \A r \in Reqs :
    req[r].abandoned # "no" =>
      /\ LeftNothing(r) \/ LeftAll(r)
      /\ req[r].abandoned = "process" => LeftNothing(r)
      /\ req[r].abandoned = "client" => (LeftAll(r) <=> req[r].status = 201)
      /\ InFlight(r) => LeftNothing(r)

\* a request whose client left after its UPDATE and whose handler committed
\* all the same, next to a request that had inserted its row and updated a
\* quantity when the process died
C20_Witness ==
  \E r, o \in Reqs :
    /\ req[r].abandoned = "client" /\ req[r].status = 201
    /\ RecordVisible(r) /\ req[r].applied # ZeroDelta
    /\ req[o].abandoned = "process" /\ req[o].pc = "done"
    /\ req[o].stmtDelta # ZeroDelta
    /\ ~RecordVisible(o)

\* every row of table t is, unchanged and at its place, a row of table u
Kept(t, u) ==
  /\ Len(t) <= Len(u)
  /\ \A k \in DOMAIN t : u[k] = t[k]

\* C21: no step modifies or removes a committed purchase or sale row: every
\* committed row keeps all its field values in the next state, and the two
\* tables only grow.
C21_AppendOnly ==
  [][Kept(purchases, purchases') /\ Kept(sales, sales')]_vars

\* a purchase row and a sale row committed one after the other, the earlier
\* one still there
C21_Witness ==
  /\ Len(purchases) = 1 /\ Len(sales) = 1
  /\ \A r \in Reqs : req[r].status = 201 /\ RecordVisible(r)

\* a field of the item body is missing
ItemFieldMissing(b) ==
  ~b.item_name \/ ~b.category \/ b.quantity = None \/ b.rate = None

\* C22: the last POST to the inventory route was answered with the
\* validation failure exactly when its name, category, quantity or rate was
\* missing; when it was answered with an id, the row of that id carries the
\* supplied opening quantity.  (A POST whose INSERT threw is left aside.)
C22_ItemValidated ==
  post.route = "inventory" =>
    /\ post.status = 400 <=> ItemFieldMissing(post.body)
    /\ post.status = 201 =>
         /\ post.id \in DOMAIN inventory
         /\ opening[post.id] = post.body.quantity[1]

\* C23: the stock on hand never stands in the way of a sale.  A sale is
\* answered 400 only for the shape of its items; its UPDATE runs as soon as
\* the row lock is free and its COMMIT as soon as it is reached, whatever the
\* quantities; and a committed sale has lowered every quantity by all it
\* sold, below zero where it sold more than was there.
C23_NoStockCheck ==
  \A r \in Reqs :
    req[r].kind = "sale" =>
      /\ req[r].status = 400 <=> ItemsRejected(req[r].body.items)
      /\ (req[r].pc = "update" /\ LockGranted(r)) => ENABLED SaleUpdate(r)
      /\ req[r].pc = "commit" => ENABLED Commit(r)
      /\ req[r].status = 201 => req[r].applied = req[r].stmtDelta

\* a committed sale of more than was on hand: the quantity of its item is
\* negative
C23_Witness ==
  \E r \in Reqs, i \in DOMAIN inventory :
    /\ req[r].kind = "sale" /\ req[r].status = 201
    /\ req[r].applied[i] < 0
    /\ inventory[i].quantity < 0
    /\ inventory[i].quantity - req[r].applied[i] >= 0

\* a step that answers a POST to the expenses route
ExpenseAnswered == post' # post /\ post'.route = "expenses"

\* the step adds one row, with the amount of the answered POST, to the
\* expenses and leaves the rows there were
AddsOneExpense ==
  /\ Len(expenses') = Len(expenses) + 1
  /\ Kept(expenses, expenses')
  /\ expenses'[post'.id].amount = post'.body.amount[1]

C25_OneSnapshot ==
  \A k \in Reads :
    (rep[k].kind = "report" /\ rep[k].status = 200 /\ rep[k].query.detail) =>
      /\ rep[k].summary.sales =
           SumSeq([n \in DOMAIN rep[k].lists.sales |->
                     rep[k].lists.sales[n].grand_total])
      /\ rep[k].summary.purchases =
           SumSeq([n \in DOMAIN rep[k].lists.purchases |->
                     (rep[k].lists.purchases[n].quantity
                        * rep[k].lists.purchases[n].rate) \div Unit])
      /\ rep[k].summary.expenses =
           SumSeq([n \in DOMAIN rep[k].lists.expenses |->
                     rep[k].lists.expenses[n].amount])

\* the committed sale row of request r
StoredSale(r) == sales[CHOOSE k \in DOMAIN sales : sales[k].req = r]

Holding == {"begin"} \cup Open

\* C27: never are more connections checked out than the pool has; a request
\* holds a connection exactly from pool.getConnection() to the end of its
\* handler, on whichever path it ends; it acquires at most one and has
\* released it exactly once when it is done; with no request in progress no
\* request has a connection checked out.
C27_PoolBalanced ==
  /\ Cardinality(checkedOut) <= connectionLimit
  /\ \A r \in Reqs :
       /\ r \in checkedOut <=> req[r].pc \in Holding
       /\ r \in checkedOut <=> req[r].acquired = 1 /\ req[r].released = 0
       /\ req[r].released <= req[r].acquired /\ req[r].acquired <= 1
       /\ req[r].pc = "done" => req[r].released = req[r].acquired
  /\ Quiescent => checkedOut \cap Reqs = {}

\* all connections of the pool checked out, one of them by a request that
\* failed and has not yet rolled back, while another request waits in
\* pool.getConnection()
C27_Witness ==
  \E r, o \in Reqs :
    /\ Cardinality(checkedOut) = connectionLimit
    /\ req[r].pc = "getConnection"
    /\ req[o].pc = "rollback" /\ o \in checkedOut

\* C28: with sales executed one at a time, the k-th sale row committed to a
\* table that held n rows carries the sequence number n + k, whatever sales
\* were rejected or rolled back in between: starting from the empty table the
\* numbers are 001, 002, ... without a gap.
C28_GapFree ==
  \A k \in DOMAIN sales :
    Number(SeqPart(sales[k].invoice_number)) = priorSales + k

\* a sale that was rolled back after its INSERT, followed by a sale that
\* committed as the first row of the table with the number 001
C28_Witness ==
  \E r, o \in Reqs :
    /\ req[r].kind = "sale" /\ req[r].status = 500 /\ req[r].i >= 1
    /\ req[o].kind = "sale" /\ req[o].status = 201
    /\ priorSales = 0 /\ Len(sales) = 1
    /\ SeqPart(sales[1].invoice_number) = <<"0", "0", "1">>
    /\ sales[1].id = 2

====
